---- MODULE Spec2Model ----
(***************************************************************************)
(* cfn-cleaner: bulk deletion of CloudFormation stacks by name prefix.     *)
(*                                                                         *)
(* The module models                                                       *)
(*   - src/src/utils.ts: the backoff calculators, the error classification *)
(*     and withRetry (one retry session, specification RetrySpec; the      *)
(*     classification alone, specification ClassifySpec; one calculator    *)
(*     alone, specification BackoffSpec);                                  *)
(*   - the main script in its revisions (src/src/main.mts and the compiled *)
(*     main.js): argument handling, listing, prefix filter, confirmation   *)
(*     and the deletion sweep (specifications Spec, FairSpec, SweepSpec;   *)
(*     arrayChunk alone, specification ChunkSpec).                         *)
(*                                                                         *)
(* Strings whose characters matter (messages, answers, stack names,        *)
(* prefixes) are tuples of one-character strings; strings that are only    *)
(* compared for equality (error names, codes, strategies) are TLA+ strings.*)
(* Real numbers: jitterFactor is a fraction [num, den]; Math.random() is   *)
(* k / RandDen for k in 0 .. RandDen-1; a delay is an integer in units of  *)
(* 1 / DelayScale(config) milliseconds.                                    *)
(***************************************************************************)
EXTENDS Integers, Sequences, FiniteSets, TLC

VARIABLES
    \* ---- one retry session (RetrySpec) ----
    options,      \* the RetryOptions the caller passes to withRetry
    rs,           \* the session: resolved config, calculator, attempt, position
    history,      \* the outcome of every invocation of the operation, in order
    events,       \* what the session did, in order: invoke, nextDelay, warn, sleep
    \* ---- the classification alone (ClassifySpec) ----
    thrown,       \* a thrown value
    verdict,      \* what isAWSError / isRetryableError said about it
    \* ---- one run of the main script (Spec) ----
    revision,     \* which revision of the main script runs
    args,         \* the command line
    remote,       \* the stacks the remote listing holds, and its page size
    answers,      \* number of answers the operator has typed
    main,         \* the main script: position, collected summaries, exit code
    pipelines,    \* the per-stack pipelines of the sweep
    requests,     \* the delete requests the remote API received, per StackName
    log,          \* what the logger printed: 'done', 'canceled'
    \* ---- one call of arrayChunk (ChunkSpec) ----
    chunking,     \* the array and size passed, and the chunks returned
    \* ---- one backoff calculator (BackoffSpec) ----
    calc          \* its configuration, its state and the delay it returned last

retryVars == <<options, rs, history, events>>
classifyVars == <<thrown, verdict>>
mainVars == <<revision, args, remote, answers, main, pipelines, requests, log>>
chunkVars == <<chunking>>
backoffVars == <<calc>>
vars == <<options, rs, history, events, thrown, verdict,
          revision, args, remote, answers, main, pipelines, requests, log,
          chunking, calc>>

(***************************************************************************)
(* Bounds of the model.                                                    *)
(***************************************************************************)
\* Math.random() takes the values 0/RandDen .. (RandDen-1)/RandDen.
RandDen == 3
\* The largest maxAttempts the retry session is checked with.
MaxAttemptsBound == 3
\* The most stacks the remote listing holds.
MaxStacks == 3
\* The most targets of a sweep of SweepSpec.
MaxTargets == 4
\* The longest array and the largest size arrayChunk is called with.
MaxLen == 7
MaxChunkSize == 4

(***************************************************************************)
(* Generic helpers.                                                        *)
(***************************************************************************)
Min(a, b) == IF a <= b THEN a ELSE b

RECURSIVE Pow2(_)
Pow2(n) == IF n <= 0 THEN 1 ELSE 2 * Pow2(n - 1)

Range(s) == {s[i] : i \in 1..Len(s)}

\* String.prototype.includes: needle occurs in s as a contiguous substring.
Includes(s, needle) ==
    \E i \in 1..(Len(s) - Len(needle) + 1) :
        SubSeq(s, i, i + Len(needle) - 1) = needle

\* String.prototype.startsWith.
StartsWith(s, p) == Len(p) <= Len(s) /\ SubSeq(s, 1, Len(p)) = p

LowerChar(c) ==
    CASE c = "Y" -> "y" [] c = "E" -> "e" [] c = "S" -> "s"
      [] c = "N" -> "n" [] c = "O" -> "o" [] c = "R" -> "r" [] OTHER -> c

\* String.prototype.toLowerCase.
ToLowerCase(s) == [i \in 1..Len(s) |-> LowerChar(s[i])]

(***************************************************************************)
(* Thrown values.  A thrown value is described by what withRetry reads of  *)
(* it: whether it is an instance of Error, its name (a string, absent, or  *)
(* present but not a string), its code (a string or absent) and its        *)
(* message (characters; an Error always has one, possibly empty).          *)
(***************************************************************************)
Undefined == "<undefined>"
NotAString == "<not a string>"

RateExceeded == <<"R","a","t","e"," ","e","x","c","e","e","d","e","d">>

ErrorNames ==
    {"ThrottlingException", "TooManyRequestsException", "RequestLimitExceeded",
     "ValidationException", "Error", "throttlingexception"}

ErrorCodes == {Undefined, "RequestThrottled", "Throttling"}

ErrorMessages ==
    {pre \o core \o suf :
        pre \in {<<>>, <<"x">>},
        core \in {<<>>, RateExceeded, ToLowerCase(RateExceeded),
                  SubSeq(RateExceeded, 1, 12), SubSeq(RateExceeded, 2, 13),
                  <<"R","a","t","e","e","x","c","e","e","d","e","d">>},
        suf \in {<<>>, <<"!">>}}

\* Every thrown value of the model.  An instance of Error inherits a name, so
\* its name is never absent.
ThrownValues ==
    {e \in [isError : BOOLEAN, name : ErrorNames \cup {Undefined, NotAString},
            code : ErrorCodes, message : ErrorMessages] :
        e.isError => e.name # Undefined}

AnError(name, code, message) ==
    [isError |-> TRUE, name |-> name, code |-> code, message |-> message]

\* The thrown values the retry session and the sweep are run against.
PlainThrottling ==
    [isError |-> FALSE, name |-> "ThrottlingException", code |-> Undefined,
     message |-> <<>>]
NoNameValue ==
    [isError |-> FALSE, name |-> Undefined, code |-> Undefined, message |-> <<>>]
NumberNameError == AnError(NotAString, "RequestThrottled", RateExceeded)
Throttling == AnError("ThrottlingException", Undefined, <<>>)
TooManyRequests == AnError("TooManyRequestsException", Undefined, <<"x">>)
CodeThrottled == AnError("Error", "RequestThrottled", <<>>)
MessageRate == AnError("Error", Undefined, <<"x">> \o RateExceeded)
Validation == AnError("ValidationException", "Throttling", <<"x">>)
LowercaseRate ==
    AnError("throttlingexception", "Throttling", ToLowerCase(RateExceeded))

SampleErrors ==
    {PlainThrottling, NoNameValue, NumberNameError, Throttling, TooManyRequests,
     CodeThrottled, MessageRate, Validation, LowercaseRate}

(***************************************************************************)
(* utils.ts: isAWSError, isRetryableError.                                 *)
(***************************************************************************)
isAWSErrorAnyObject(error) ==
    /\ error.name # Undefined
    /\ error.name # NotAString

isAWSErrorInstanceOnly(error) == error.isError

isAWSError(error) ==
    /\ error.isError
    /\ error.name # Undefined
    /\ error.name # NotAString

isRetryableErrorNoMessage(error) ==
    \/ error.name = "ThrottlingException"
    \/ error.name = "TooManyRequestsException"
    \/ error.name = "RequestLimitExceeded"
    \/ error.code = "RequestThrottled"

isRetryableErrorAlways(error) == TRUE

isRetryableError(error) ==
    \/ error.name = "ThrottlingException"
    \/ error.name = "TooManyRequestsException"
    \/ error.name = "RequestLimitExceeded"
    \/ error.code = "RequestThrottled"
    \/ (error.message # <<>> /\ Includes(error.message, RateExceeded))

(***************************************************************************)
(* utils.ts: the backoff calculators.                                      *)
(***************************************************************************)
EXPONENTIAL == "exponential"
DECORRELATED_JITTER == "decorrelated-jitter"
FULL_JITTER == "full-jitter"

Fraction(n, d) == [num |-> n, den |-> d]

\* A delay is counted in units of 1 / DelayScale(config) ms.
DelayScale(config) == config.jitterFactor.den * RandDen

\* Variant: the exponential delay is not capped at maxDelay.
ExponentialUncapped(config, attempt, k) ==
    LET delay == config.baseDelay * Pow2(attempt - 1)
        jf == config.jitterFactor
    IN  IF jf.num = 0
        THEN delay * DelayScale(config)
        ELSE delay * jf.den * RandDen - delay * jf.num * RandDen
                + k * delay * jf.num * 2

\* Variant: the jitter is added on top of the delay instead of around it.
ExponentialOneSidedJitter(config, attempt, k) ==
    LET baseDelay == config.baseDelay * Pow2(attempt - 1)
        delay == Min(baseDelay, config.maxDelay)
        jf == config.jitterFactor
    IN  IF jf.num = 0
        THEN delay * DelayScale(config)
        ELSE delay * jf.den * RandDen + k * delay * jf.num * 2

ExponentialNextDelay(config, attempt, k) ==
    LET baseDelay == config.baseDelay * Pow2(attempt - 1)
        delay == Min(baseDelay, config.maxDelay)
        jf == config.jitterFactor
    IN  IF jf.num = 0
        THEN delay * DelayScale(config)
        ELSE \* delay - jitter + Math.random() * jitter * 2, jitter = delay * jf
             delay * jf.den * RandDen - delay * jf.num * RandDen
                + k * delay * jf.num * 2

\* Variant: calcDelay is not capped at maxDelay.
DecorrelatedUncapped(config, lastDelay, k) ==
    LET jf == config.jitterFactor
        minDelay == config.baseDelay
        calcDelay == jf.num * 3 * lastDelay
    IN  (minDelay * jf.den * RandDen + k * (calcDelay - minDelay * jf.den))
            \div (jf.den * RandDen)

\* The new lastDelay, in ms (Math.floor makes it a whole number).
DecorrelatedLastDelay(config, lastDelay, k) ==
    LET jf == config.jitterFactor
        minDelay == config.baseDelay
        \* calcDelay * jf.den
        calcDelay == Min(config.maxDelay * jf.den, jf.num * 3 * lastDelay)
    IN  (minDelay * jf.den * RandDen + k * (calcDelay - minDelay * jf.den))
            \div (jf.den * RandDen)

\* Variant: the ceiling of the draw is not capped at maxDelay.
FullJitterUncapped(config, attempt, k) ==
    k * config.baseDelay * Pow2(attempt - 1) * config.jitterFactor.den

FullJitterNextDelay(config, attempt, k) ==
    LET baseDelay == config.baseDelay * Pow2(attempt - 1)
        capDelay == Min(baseDelay, config.maxDelay)
    IN  k * capDelay * config.jitterFactor.den

\* Variant: an unrecognized strategy selects Full Jitter.
createBackoffCalculatorFullByDefault(config) ==
    CASE config.strategy = DECORRELATED_JITTER ->
            [class |-> "DecorrelatedJitterBackoff", lastDelay |-> config.baseDelay]
      [] config.strategy = EXPONENTIAL ->
            [class |-> "ExponentialBackoff", lastDelay |-> 0]
      [] OTHER ->
            [class |-> "FullJitterBackoff", lastDelay |-> 0]

createBackoffCalculator(config) ==
    CASE config.strategy = DECORRELATED_JITTER ->
            [class |-> "DecorrelatedJitterBackoff", lastDelay |-> config.baseDelay]
      [] config.strategy = FULL_JITTER ->
            [class |-> "FullJitterBackoff", lastDelay |-> 0]
      [] OTHER ->
            [class |-> "ExponentialBackoff", lastDelay |-> 0]

\* backoff.nextDelay(attempt) with Math.random() = k / RandDen: the delay
\* returned and the calculator afterwards.
nextDelay(backoff, config, attempt, k) ==
    CASE backoff.class = "DecorrelatedJitterBackoff" ->
            LET d == DecorrelatedLastDelay(config, backoff.lastDelay, k)
            IN  [delay |-> d * DelayScale(config),
                 backoff |-> [backoff EXCEPT !.lastDelay = d]]
      [] backoff.class = "FullJitterBackoff" ->
            [delay |-> FullJitterNextDelay(config, attempt, k), backoff |-> backoff]
      [] OTHER ->
            [delay |-> ExponentialNextDelay(config, attempt, k), backoff |-> backoff]

\* Variant: reset() leaves lastDelay as it is.
resetKeepsLastDelay(backoff, config) == backoff

reset(backoff, config) ==
    IF backoff.class = "DecorrelatedJitterBackoff"
    THEN [backoff EXCEPT !.lastDelay = config.baseDelay]
    ELSE backoff

(***************************************************************************)
(* utils.ts: withRetry.                                                    *)
(***************************************************************************)
DefaultBaseDelay == 1000
DefaultMaxDelay == 20000
DefaultMaxAttempts == 3
DefaultJitterFactor == Fraction(2, 10)

Has(opts, field) == field \in DOMAIN opts

\* Variant: jitterFactor resolved with || instead of ??, so that a supplied
\* 0 gives way to the default.
ResolveConfigFalsy(opts) ==
    [strategy |-> IF Has(opts, "strategy") THEN opts.strategy ELSE EXPONENTIAL,
     baseDelay |-> IF Has(opts, "baseDelay") THEN opts.baseDelay ELSE DefaultBaseDelay,
     maxDelay |-> IF Has(opts, "maxDelay") THEN opts.maxDelay ELSE DefaultMaxDelay,
     jitterFactor |-> IF Has(opts, "jitterFactor") /\ opts.jitterFactor.num # 0
                      THEN opts.jitterFactor
                      ELSE DefaultJitterFactor]

\* const config = { strategy: options.strategy ?? ..., ... }
ResolveConfig(opts) ==
    [strategy |-> IF Has(opts, "strategy") THEN opts.strategy ELSE EXPONENTIAL,
     baseDelay |-> IF Has(opts, "baseDelay") THEN opts.baseDelay ELSE DefaultBaseDelay,
     maxDelay |-> IF Has(opts, "maxDelay") THEN opts.maxDelay ELSE DefaultMaxDelay,
     jitterFactor |-> IF Has(opts, "jitterFactor") THEN opts.jitterFactor
                      ELSE DefaultJitterFactor]

ResolveMaxAttempts(opts) ==
    IF Has(opts, "maxAttempts") THEN opts.maxAttempts ELSE DefaultMaxAttempts

NoOutcome == [kind |-> "pending", value |-> "", error |-> NoNameValue, id |-> 0]

NewSessionStaleCalculator(opts) ==
    LET config == ResolveConfig(opts)
    IN  [config |-> config,
         maxAttempts |-> ResolveMaxAttempts(opts),
         backoff |-> [createBackoffCalculator(config) EXCEPT
                         !.lastDelay = config.maxDelay * DelayScale(config)],
         attempt |-> 0,
         pc |-> "awaiting",
         delay |-> 0,
         outcome |-> NoOutcome]

\* The session when withRetry enters its loop: config resolved, calculator
\* constructed, attempt = 0.
NewSession(opts) ==
    LET config == ResolveConfig(opts)
    IN  [config |-> config,
         maxAttempts |-> ResolveMaxAttempts(opts),
         backoff |-> createBackoffCalculator(config),
         attempt |-> 0,
         pc |-> "awaiting",
         delay |-> 0,
         outcome |-> NoOutcome]

shouldRetryIgnoresAttempts(error, attempt, maxAttempts) ==
    isRetryableError(error)

shouldRetryOffByOne(error, attempt, maxAttempts) ==
    isRetryableError(error) /\ attempt <= maxAttempts

shouldRetryGivesUpEarly(error, attempt, maxAttempts) ==
    isRetryableError(error) /\ attempt + 1 < maxAttempts

shouldRetry(error, attempt, maxAttempts) ==
    isRetryableError(error) /\ attempt < maxAttempts

Effect(op, attempt, delay) == [op |-> op, attempt |-> attempt, delay |-> delay]

\* return await operation(params), the operation having resolved with value.
ReturnValueStale(sess, value, id) ==
    [sess EXCEPT !.pc = "returned",
                 !.outcome = [kind |-> "value", value |-> "", error |-> NoNameValue,
                              id |-> id]]

ReturnValue(sess, value, id) ==
    [sess EXCEPT !.pc = "returned",
                 !.outcome = [kind |-> "value", value |-> value, error |-> NoNameValue,
                              id |-> id]]

Throw(sess, error, id) ==
    [sess EXCEPT !.pc = "threw",
                 !.outcome = [kind |-> "error", value |-> "", error |-> error,
                              id |-> id]]

\* The catch block for the error thrown by invocation number id, with
\* Math.random() = k / RandDen: the session afterwards and what the block did.
CatchWrapsError(sess, error, id, k) ==
    LET attempt == sess.attempt + 1
        s1 == [sess EXCEPT !.attempt = attempt]
    IN  IF ~isAWSError(error) \/ ~shouldRetry(error, attempt, sess.maxAttempts)
        THEN [sess |-> Throw(s1, AnError("RetryError", Undefined, <<>>), id),
              effects |-> <<>>]
        ELSE LET nd == nextDelay(sess.backoff, sess.config, attempt, k)
             IN  [sess |-> [s1 EXCEPT !.pc = "sleeping", !.delay = nd.delay,
                                      !.backoff = nd.backoff],
                  effects |-> <<Effect("nextDelay", attempt, 0),
                                Effect("warn", attempt, nd.delay),
                                Effect("sleep", attempt, nd.delay)>>]

\* Variant: the attempt passed to nextDelay and reported is one too small.
CatchCountsFromZero(sess, error, id, k) ==
    LET attempt == sess.attempt + 1
        s1 == [sess EXCEPT !.attempt = attempt]
    IN  IF ~isAWSError(error)
        THEN [sess |-> Throw(s1, error, id), effects |-> <<>>]
        ELSE IF ~shouldRetry(error, attempt, sess.maxAttempts)
        THEN [sess |-> Throw(s1, error, id), effects |-> <<>>]
        ELSE LET nd == nextDelay(sess.backoff, sess.config, attempt - 1, k)
             IN  [sess |-> [s1 EXCEPT !.pc = "sleeping", !.delay = nd.delay,
                                      !.backoff = nd.backoff],
                  effects |-> <<Effect("nextDelay", attempt - 1, 0),
                                Effect("warn", attempt - 1, nd.delay),
                                Effect("sleep", attempt - 1, nd.delay)>>]

Catch(sess, error, id, k) ==
    LET attempt == sess.attempt + 1
        s1 == [sess EXCEPT !.attempt = attempt]
    IN  IF ~isAWSError(error)
        THEN [sess |-> Throw(s1, error, id), effects |-> <<>>]
        ELSE IF ~shouldRetry(error, attempt, sess.maxAttempts)
        THEN [sess |-> Throw(s1, error, id), effects |-> <<>>]
        ELSE LET nd == nextDelay(sess.backoff, sess.config, attempt, k)
             IN  [sess |-> [s1 EXCEPT !.pc = "sleeping", !.delay = nd.delay,
                                      !.backoff = nd.backoff],
                  effects |-> <<Effect("nextDelay", attempt, 0),
                                Effect("warn", attempt, nd.delay),
                                Effect("sleep", attempt, nd.delay)>>]

\* await sleep(delay) is over: the loop invokes the operation again.
Resume(sess) == [sess EXCEPT !.pc = "awaiting", !.delay = 0]

(***************************************************************************)
(* The values of the variables a specification does not use.               *)
(***************************************************************************)
NoOptions == [f \in {} |-> 0]

IdleSession == [NewSession(NoOptions) EXCEPT !.pc = "idle"]

IdleRetry ==
    /\ options = NoOptions
    /\ rs = IdleSession
    /\ history = <<>>
    /\ events = <<>>

NoVerdict == [done |-> FALSE, aws |-> FALSE, retryable |-> FALSE]

IdleClassify ==
    /\ thrown = NoNameValue
    /\ verdict = NoVerdict

IdleChunk ==
    chunking = [array |-> <<>>, size |-> 1, before |-> <<>>, chunks |-> <<>>,
                pc |-> "idle"]

\* A calculator built from a configuration, and a second one built from the
\* same configuration (twin); nothing has been asked of them yet.
NewCalc(config) ==
    [config |-> config,
     backoff |-> createBackoffCalculator(config),
     twin |-> createBackoffCalculator(config),
     attempt |-> 0, delay |-> 0, twinDelay |-> 0,
     prev |-> [attempt |-> 0, delay |-> 0],
     calls |-> 0, total |-> 0, pc |-> "ready"]

IdleBackoff == calc = [NewCalc(ResolveConfig(NoOptions)) EXCEPT !.pc = "idle"]

IdleMain ==
    /\ revision = "none"
    /\ args = <<>>
    /\ remote = <<>>
    /\ answers = <<>>
    /\ main = <<>>
    /\ pipelines = <<>>
    /\ requests = <<>>
    /\ log = <<>>

(***************************************************************************)
(* ClassifySpec: the classification of one thrown value.                   *)
(***************************************************************************)
ClassifyInit ==
    /\ thrown \in ThrownValues
    /\ verdict = NoVerdict
    /\ IdleRetry
    /\ IdleMain
    /\ IdleChunk
    /\ IdleBackoff

Classify ==
    /\ ~verdict.done
    /\ verdict' = [done |-> TRUE,
                   aws |-> isAWSError(thrown),
                   retryable |-> isRetryableError(thrown)]
    /\ UNCHANGED <<thrown, retryVars, mainVars, chunkVars, backoffVars>>

ClassifyNext == Classify

ClassifySpec == ClassifyInit /\ [][ClassifyNext]_vars

(***************************************************************************)
(* RetrySpec: one withRetry session against an operation that, at every    *)
(* invocation, resolves with some value or rejects with some thrown value. *)
(***************************************************************************)
Strategies == {EXPONENTIAL, DECORRELATED_JITTER, FULL_JITTER, "linear"}

ResultValues == {"resp1", "resp2"}

Field(name, values) == {NoOptions} \cup {name :> v : v \in values}

\* The options of the sessions checked: every field absent or supplied.
RetryOptionsSet ==
    {s @@ b @@ m @@ j @@ a :
        s \in Field("strategy", Strategies),
        b \in Field("baseDelay", {2}),
        m \in Field("maxDelay", {5}),
        j \in Field("jitterFactor", {Fraction(0, 1), Fraction(1, 1)}),
        a \in Field("maxAttempts", 1..MaxAttemptsBound)}

RetryInit ==
    /\ options \in RetryOptionsSet
    /\ rs = IdleSession
    /\ history = <<>>
    /\ events = <<>>
    /\ IdleClassify
    /\ IdleMain
    /\ IdleChunk
    /\ IdleBackoff

Invocation(n) == Effect("invoke", n, 0)

Resolved(value, id) ==
    [ok |-> TRUE, value |-> value, error |-> NoNameValue, id |-> id]

Rejected(error, id) ==
    [ok |-> FALSE, value |-> "", error |-> error, id |-> id]

\* withRetry(operation, params, options) is called and invokes the operation.
Call ==
    /\ rs.pc = "idle"
    /\ rs' = NewSession(options)
    /\ events' = <<Invocation(1)>>
    /\ UNCHANGED <<options, history, classifyVars, mainVars, chunkVars, backoffVars>>

\* The pending invocation resolves.
OperationResolves ==
    /\ rs.pc = "awaiting"
    /\ \E value \in ResultValues :
        LET id == Len(history) + 1
        IN  /\ rs' = ReturnValue(rs, value, id)
            /\ history' = Append(history, Resolved(value, id))
    /\ UNCHANGED <<options, events, classifyVars, mainVars, chunkVars, backoffVars>>

\* The pending invocation rejects: the catch block runs.
OperationRejects ==
    /\ rs.pc = "awaiting"
    /\ \E error \in SampleErrors, k \in 0..(RandDen - 1) :
        LET id == Len(history) + 1
            c == Catch(rs, error, id, k)
        IN  /\ rs' = c.sess
            /\ events' = events \o c.effects
            /\ history' = Append(history, Rejected(error, id))
    /\ UNCHANGED <<options, classifyVars, mainVars, chunkVars, backoffVars>>

\* The backoff sleep is over: the loop invokes the operation again.
SleepOver ==
    /\ rs.pc = "sleeping"
    /\ rs' = Resume(rs)
    /\ events' = Append(events, Invocation(Len(history) + 1))
    /\ UNCHANGED <<options, history, classifyVars, mainVars, chunkVars, backoffVars>>

RetryNext == Call \/ OperationResolves \/ OperationRejects \/ SleepOver

RetrySpec == RetryInit /\ [][RetryNext]_vars

RetryTypeOK ==
    /\ rs.pc \in {"idle", "awaiting", "sleeping", "returned", "threw"}
    /\ rs.attempt \in 0..(rs.maxAttempts)
    /\ Len(history) <= rs.maxAttempts

(***************************************************************************)
(* Properties of a retry session (RetrySpec) and of the classification     *)
(* (ClassifySpec).                                                         *)
(***************************************************************************)
Count(op) == Cardinality({i \in 1..Len(events) : events[i].op = op})

Invocations == Count("invoke")

\* maxAttempts as the caller asked for it.
AskedMaxAttempts == IF Has(options, "maxAttempts") THEN options.maxAttempts ELSE 3

\* The sample errors by what the caller expects of them.
RetryableSamples == {Throttling, TooManyRequests, CodeThrottled, MessageRate}
PermanentSamples == {Validation, LowercaseRate}
NamelessSamples == {NoNameValue, NumberNameError}

FailedWith(i, errors) == ~history[i].ok /\ history[i].error \in errors

AllFailedRetryable ==
    \A i \in 1..Len(history) : FailedWith(i, RetryableSamples)

Last == history[Len(history)]

\* C3: an operation that always fails with a retryable error is invoked
\* exactly maxAttempts times and then withRetry rejects with that error: the
\* session has thrown exactly when maxAttempts invocations have failed, the
\* error is the last one thrown, and with maxAttempts = 1 the first failure
\* propagates with no nextDelay call and no wait.
C3_AlwaysRetryableExhausts ==
    (history # <<>> /\ AllFailedRetryable) =>
        /\ Invocations <= AskedMaxAttempts
        /\ (rs.pc = "threw") <=> (Len(history) = AskedMaxAttempts)
        /\ rs.pc = "threw" =>
            /\ Invocations = AskedMaxAttempts
            /\ rs.outcome.kind = "error"
            /\ rs.outcome.error = Last.error
        /\ AskedMaxAttempts = 1 =>
            /\ Count("nextDelay") = 0
            /\ Count("sleep") = 0

C3_Witness ==
    /\ rs.pc = "threw"
    /\ AllFailedRetryable
    /\ Len(history) = 3
    /\ AskedMaxAttempts = 3

\* C4: an operation that fails with a retryable error maxAttempts - 1 times
\* and then succeeds: the session is still running after the failures, and
\* withRetry returns the success value after exactly maxAttempts invocations
\* and maxAttempts - 1 waits.
C4_SucceedsOnLastAttempt ==
    /\ (/\ Len(history) = AskedMaxAttempts - 1
        /\ AllFailedRetryable) => rs.pc \in {"idle", "awaiting", "sleeping"}
    /\ (/\ Len(history) = AskedMaxAttempts
        /\ \A i \in 1..(Len(history) - 1) : FailedWith(i, RetryableSamples)
        /\ Last.ok) =>
            /\ rs.pc = "returned"
            /\ rs.outcome.kind = "value"
            /\ rs.outcome.value = Last.value
            /\ Invocations = AskedMaxAttempts
            /\ Count("sleep") = AskedMaxAttempts - 1

C4_Witness ==
    /\ rs.pc = "returned"
    /\ Len(history) = 3
    /\ AskedMaxAttempts = 3
    /\ FailedWith(1, RetryableSamples)
    /\ FailedWith(2, RetryableSamples)
    /\ Count("sleep") = 2

\* C5: an operation that throws a value without a string name is invoked
\* exactly once and withRetry rejects with that same value, whatever
\* maxAttempts and the strategy, with no nextDelay call and no wait.
C5_NamelessNeverRetried ==
    (history # <<>> /\ FailedWith(1, NamelessSamples)) =>
        /\ rs.pc = "threw"
        /\ rs.outcome.kind = "error"
        /\ rs.outcome.error = history[1].error
        /\ rs.outcome.id = 1
        /\ Len(history) = 1
        /\ Invocations = 1
        /\ Count("nextDelay") = 0
        /\ Count("sleep") = 0

C5_Witness ==
    /\ rs.pc = "threw"
    /\ history # <<>>
    /\ history[1].error = NumberNameError
    /\ AskedMaxAttempts = 3
    /\ Has(options, "strategy") /\ options.strategy = DECORRELATED_JITTER

\* C6: an operation that fails with a recognized error that is not
\* retryable (name outside the allow-list, code not RequestThrottled,
\* message without 'Rate exceeded') is invoked exactly once and withRetry
\* rejects with that error without waiting, whatever maxAttempts.
C6_PermanentNeverRetried ==
    (history # <<>> /\ FailedWith(1, PermanentSamples)) =>
        /\ rs.pc = "threw"
        /\ rs.outcome.kind = "error"
        /\ rs.outcome.error = history[1].error
        /\ Len(history) = 1
        /\ Invocations = 1
        /\ Count("nextDelay") = 0
        /\ Count("sleep") = 0

C6_Witness ==
    /\ rs.pc = "threw"
    /\ history # <<>>
    /\ history[1].error = Validation
    /\ AskedMaxAttempts = 3

\* 'Rate exceeded' occurs in the message, character by character.
HasRateExceeded(message) ==
    \E off \in 0..(Len(message) - 13) :
        \A j \in 1..13 : message[off + j] = RateExceeded[j]

\* C7: a recognized error is classified retryable if and only if its name
\* is ThrottlingException, TooManyRequestsException or RequestLimitExceeded,
\* or its code is RequestThrottled, or its message contains 'Rate exceeded'.
C7_RetryableIff ==
    (verdict.done /\ verdict.aws) =>
        (verdict.retryable <=>
            \/ thrown.name \in {"ThrottlingException", "TooManyRequestsException",
                                "RequestLimitExceeded"}
            \/ thrown.code = "RequestThrottled"
            \/ HasRateExceeded(thrown.message))

C7_Witness ==
    /\ verdict.done
    /\ verdict.aws
    /\ verdict.retryable
    /\ thrown.name = "ValidationException"
    /\ thrown.code = "Throttling"
    /\ thrown.message = <<"x">> \o RateExceeded \o <<"!">>

C9_RejectsWithLastError ==
    /\ rs.pc = "threw" =>
        /\ history # <<>>
        /\ ~Last.ok
        /\ rs.outcome.kind = "error"
        /\ rs.outcome.error = Last.error
        /\ rs.outcome.id = Last.id
        /\ Last.id = Invocations
    /\ (/\ Len(history) >= 2
        /\ FailedWith(1, RetryableSamples)
        /\ FailedWith(2, PermanentSamples)) =>
            /\ rs.pc = "threw"
            /\ Invocations = 2
            /\ rs.outcome.error = history[2].error

C9_Witness ==
    /\ rs.pc = "threw"
    /\ Len(history) = 3
    /\ history[1].error = Throttling
    /\ history[2].error = CodeThrottled
    /\ history[3].error = MessageRate
    /\ rs.outcome.error = MessageRate

\* C10: when an invocation succeeds, withRetry returns that invocation's
\* result and does nothing more: the success is the last invocation, the
\* last thing the session did is that invocation, and nextDelay, the warning
\* and the wait happened once per earlier failure only.
C10_ReturnsOnSuccess ==
    /\ \A i \in 1..Len(history) : history[i].ok => i = Len(history)
    /\ (history # <<>> /\ Last.ok) =>
        /\ rs.pc = "returned"
        /\ rs.outcome.kind = "value"
        /\ rs.outcome.value = Last.value
        /\ rs.outcome.id = Last.id
        /\ Invocations = Len(history)
        /\ events[Len(events)] = Invocation(Len(history))
        /\ Count("nextDelay") = Len(history) - 1
        /\ Count("warn") = Len(history) - 1
        /\ Count("sleep") = Len(history) - 1
    /\ rs.pc = "returned" => (history # <<>> /\ Last.ok)

C10_Witness ==
    /\ rs.pc = "returned"
    /\ Len(history) = 3
    /\ Last.ok
    /\ Last.value = "resp2"
    /\ Count("sleep") = 2

(***************************************************************************)
(* The main script.  Two revisions are modelled: src/src/main.mts (no      *)
(* --yes, no required prefix, delete errors caught and logged, batches of  *)
(* 10) and the compiled main.js (--yes, required prefix, delete wrapped by *)
(* withRetry, batches of 3).                                               *)
(***************************************************************************)
Revisions == {"main.mts", "main.js"}

\* argDef: '--yes' is an option of main.js only; arg() throws on an option
\* it does not know.
AcceptsYes(rev) == rev = "main.js"

\* main.js: if (!prefix) { ... process.exit(1) }
RequiresPrefix(rev) == rev = "main.js"

\* main.js wraps the delete request by withRetry; main.mts sends it once
\* and catches its error.
UsesWithRetry(rev) == rev = "main.js"

ChunkSizeJs == 3
ChunkSizeMts == 10
ChunkSize(rev) == IF rev = "main.js" THEN ChunkSizeJs ELSE ChunkSizeMts

SweepBaseDelay == 30000
SweepMaxDelay == 300000
SweepMaxAttempts == 3

\* The options main.js passes to withRetry.
\* Variant: a jitterFactor of one quarter.
SweepOptionsQuarterJitter ==
    [strategy |-> DECORRELATED_JITTER,
     maxAttempts |-> SweepMaxAttempts,
     baseDelay |-> SweepBaseDelay,
     maxDelay |-> SweepMaxDelay,
     jitterFactor |-> Fraction(1, 4)]

SweepOptions ==
    [strategy |-> DECORRELATED_JITTER,
     maxAttempts |-> SweepMaxAttempts,
     baseDelay |-> SweepBaseDelay,
     maxDelay |-> SweepMaxDelay,
     jitterFactor |-> Fraction(1, 1)]

\* ---- the command line ----
NoPrefix == [given |-> FALSE, value |-> <<>>]
Prefix(p) == [given |-> TRUE, value |-> p]

\* A JavaScript string is truthy unless it is undefined or empty.
Truthy(prefix) == prefix.given /\ prefix.value # <<>>

CommandLines ==
    [help : BOOLEAN, version : BOOLEAN, yes : BOOLEAN,
     prefix : {NoPrefix, Prefix(<<>>), Prefix(<<"a","b">>)},
     \* node --unhandled-rejections (throw is the default)
     unhandledRejections : {"throw", "warn"}]

\* ---- the remote listing ----
Stack(name) == [named |-> TRUE, name |-> name]
\* A summary without StackName: its name reads as undefined.
NoName == <<Undefined>>
UnnamedStack == [named |-> FALSE, name |-> NoName]

PoolSeq ==
    <<Stack(<<"a","b">>), UnnamedStack, Stack(<<"c","a","b">>),
      Stack(<<"a","b","c">>), Stack(<<"a">>), Stack(<<"a","b","d">>)>>

StackNames == {PoolSeq[i].name : i \in {j \in 1..Len(PoolSeq) : PoolSeq[j].named}}

RECURSIVE Picked(_, _)
Picked(S, i) ==
    IF i > Len(PoolSeq) THEN <<>>
    ELSE (IF i \in S THEN <<PoolSeq[i]>> ELSE <<>>) \o Picked(S, i + 1)

\* The listings of the model: at most MaxStacks stacks, with distinct names.
Listings ==
    {Picked(S, 1) : S \in {T \in SUBSET (1..Len(PoolSeq)) : Cardinality(T) <= MaxStacks}}

\* The listings of SweepSpec: n stacks whose names all start with "ab".
TargetName(i) == <<"a","b">> \o [j \in 1..i |-> "x"]
TargetStacks(n) == [i \in 1..n |-> Stack(TargetName(i))]
TargetListings == {TargetStacks(n) : n \in 0..MaxTargets}

\* The names a delete request may carry.
RequestNames ==
    StackNames \cup {TargetName(i) : i \in 1..MaxTargets} \cup {NoName}

\* The most summaries one response of the remote carries.
PageSize == 2

NumPages(r) ==
    IF r.stacks = <<>> THEN 1
    ELSE (Len(r.stacks) + r.pageSize - 1) \div r.pageSize

\* The response to the list request for page p: its summaries, and whether
\* it carries a NextToken.
ListResponse(r, p) ==
    [StackSummaries |-> SubSeq(r.stacks, (p - 1) * r.pageSize + 1,
                               Min(p * r.pageSize, Len(r.stacks))),
     NextToken |-> p < NumPages(r)]

\* The responses the remote may give for page p: a page without summaries
\* comes with an empty StackSummaries or with none at all.
ListResponses(r, p) ==
    LET response == ListResponse(r, p)
    IN  {response} \cup
        (IF response.StackSummaries = <<>>
         THEN {[NextToken |-> response.NextToken]}
         ELSE {})

\* response.StackSummaries ?? []
SummariesOf(response) ==
    IF "StackSummaries" \in DOMAIN response THEN response.StackSummaries
    ELSE <<>>

\* ---- the operator ----
Answers ==
    {<<"y">>, <<"Y","E","S">>, <<"n">>, <<"N","o">>,
     <<>>, <<"y","e">>, <<" ","y">>}

\* ---- the logger ----
LogKinds ==
    {"help", "version", "prefix required", "prefix", "remove stacks",
     "done", "canceled", "error"}

Logged(l, kind) == [l EXCEPT ![kind] = @ + 1]

(***************************************************************************)
(* main: pure steps.                                                       *)
(***************************************************************************)
FilterIncludes(prefix, stack) ==
    IF Truthy(prefix)
    THEN stack.named /\ Includes(stack.name, prefix.value)
    ELSE TRUE

\* (stack) => (prefix ? stack.StackName?.startsWith(prefix) : true)
PrefixFilter(prefix, stack) ==
    IF Truthy(prefix)
    THEN stack.named /\ StartsWith(stack.name, prefix.value)
    ELSE TRUE

FilterStacks(summaries, prefix) ==
    SelectSeq(summaries, LAMBDA stack : PrefixFilter(prefix, stack))

\* stacks.map((stack) => stack.StackName).filter((n) => n !== undefined)
StackNamesOf(stacks) ==
    LET named == SelectSeq(stacks, LAMBDA stack : stack.named)
    IN  [i \in 1..Len(named) |-> named[i].name]

SliceInclusive(array, from, to) == SubSeq(array, from + 1, Min(to + 1, Len(array)))

\* array.slice(from, to), indices from 0.
Slice(array, from, to) == SubSeq(array, from + 1, Min(to, Len(array)))

\* array.reduce((acc, _, index) => index % size ? acc : [...acc, slice], [])
RECURSIVE ChunkReduce(_, _, _, _)
ChunkReduce(array, size, index, acc) ==
    IF index >= Len(array) THEN acc
    ELSE ChunkReduce(array, size, index + 1,
                     IF index % size # 0 THEN acc
                     ELSE Append(acc, Slice(array, index, index + size)))

arrayChunk(array, size) == ChunkReduce(array, size, 0, <<>>)

RECURSIVE Flatten(_)
Flatten(seqs) == IF seqs = <<>> THEN <<>> ELSE Head(seqs) \o Flatten(Tail(seqs))

NewPipeline(name) ==
    [StackName |-> name, st |-> "warmup", sess |-> IdleSession,
     settled |-> "pending", failedAt |-> "", deleteFailed |-> FALSE]

LaunchFirstBatch(stackNames, size) ==
    LET chunks == arrayChunk(stackNames, size)
    IN  IF chunks = <<>> THEN <<>>
        ELSE [i \in 1..Len(chunks[1]) |-> NewPipeline(chunks[1][i])]

\* arrayChunk(stackNames, size).flatMap((names) => names.map(pipeline))
LaunchPipelines(stackNames, size) ==
    LET chunks == arrayChunk(stackNames, size)
        perChunk == [c \in 1..Len(chunks) |->
                        [i \in 1..Len(chunks[c]) |-> NewPipeline(chunks[c][i])]]
    IN  Flatten(perChunk)

(***************************************************************************)
(* Spec: one run of the script against a remote listing.                   *)
(***************************************************************************)
NewMain ==
    [pc |-> "start", token |-> 1, summaries |-> <<>>, stacks |-> <<>>,
     lists |-> 0, prompts |-> 0, aggregate |-> "none", exit |-> "none"]

Init ==
    /\ revision \in Revisions
    /\ args \in CommandLines
    /\ remote \in [stacks : Listings, pageSize : {PageSize}]
    /\ answers = <<>>
    /\ main = NewMain
    /\ pipelines = <<>>
    /\ requests = [n \in RequestNames |-> 0]
    /\ log = [kind \in LogKinds |-> 0]
    /\ IdleRetry
    /\ IdleClassify
    /\ IdleChunk
    /\ IdleBackoff

\* process.exit(code)
Exit(m, code) == [m EXCEPT !.pc = "exited", !.exit = code]

\* The catch block around the whole script: process.exit(1).
CatchAll(m) == Exit(m, "1")

\* Variant: the prefix is checked before --help and --version.
ParseArgsPrefixFirst ==
    /\ main.pc = "start"
    /\ IF args.yes /\ ~AcceptsYes(revision)
       THEN main' = CatchAll(main) /\ log' = log
       ELSE IF RequiresPrefix(revision) /\ ~Truthy(args.prefix)
       THEN /\ main' = Exit(main, "1")
            /\ log' = Logged(Logged(log, "prefix required"), "help")
       ELSE IF args.help
       THEN main' = Exit(main, "0") /\ log' = Logged(log, "help")
       ELSE IF args.version
       THEN main' = Exit(main, "0") /\ log' = Logged(log, "version")
       ELSE /\ main' = [main EXCEPT !.pc = "listing"]
            /\ log' = Logged(log, "prefix")
    /\ UNCHANGED <<revision, args, remote, answers, pipelines, requests,
                   retryVars, classifyVars, chunkVars, backoffVars>>

\* arg(argConfig) and the checks of the options, up to the first list
\* request.
ParseArgs ==
    /\ main.pc = "start"
    /\ IF args.yes /\ ~AcceptsYes(revision)
       THEN main' = CatchAll(main) /\ log' = log
       ELSE IF args.help
       THEN main' = Exit(main, "0") /\ log' = Logged(log, "help")
       ELSE IF args.version
       THEN main' = Exit(main, "0") /\ log' = Logged(log, "version")
       ELSE IF RequiresPrefix(revision) /\ ~Truthy(args.prefix)
       THEN /\ main' = Exit(main, "1")
            /\ log' = Logged(Logged(log, "prefix required"), "help")
       ELSE /\ main' = [main EXCEPT !.pc = "listing"]
            /\ log' = Logged(log, "prefix")
    /\ UNCHANGED <<revision, args, remote, answers, pipelines, requests,
                   retryVars, classifyVars, chunkVars, backoffVars>>

\* Variant: the listing stops after its first response, token or not.
ListFirstPageOnly ==
    /\ main.pc = "listing"
    /\ \E response \in ListResponses(remote, main.token) :
        main' = [main EXCEPT !.summaries = @ \o SummariesOf(response),
                             !.lists = @ + 1,
                             !.pc = "listed"]
    /\ UNCHANGED <<revision, args, remote, answers, pipelines, requests, log,
                   retryVars, classifyVars, chunkVars, backoffVars>>

\* listStacks: one request and its response; the recursion on NextToken
\* concatenates the pages in the order they are fetched.
ListPage ==
    /\ main.pc = "listing"
    /\ \E response \in ListResponses(remote, main.token) :
        LET summaries == main.summaries \o SummariesOf(response)
        IN  main' = IF response.NextToken
                    THEN [main EXCEPT !.summaries = summaries,
                                      !.lists = @ + 1,
                                      !.token = @ + 1]
                    ELSE [main EXCEPT !.summaries = summaries,
                                      !.lists = @ + 1,
                                      !.pc = "listed"]
    /\ UNCHANGED <<revision, args, remote, answers, pipelines, requests, log,
                   retryVars, classifyVars, chunkVars, backoffVars>>

\* client.send(new ListStacksCommand(...)) rejects: the catch block exits.
ListFails ==
    /\ main.pc = "listing"
    /\ main' = CatchAll([main EXCEPT !.lists = @ + 1])
    /\ UNCHANGED <<revision, args, remote, answers, pipelines, requests, log,
                   retryVars, classifyVars, chunkVars, backoffVars>>

\* Promise.all(resps).then(() => logger.info('done')) over the pipelines
\* just created: with none of them, the aggregate is fulfilled at once.
Launched(m, l, pls) ==
    IF pls = <<>>
    THEN [main |-> [m EXCEPT !.pc = "finished", !.aggregate = "fulfilled"],
          log |-> Logged(l, "done")]
    ELSE [main |-> [m EXCEPT !.pc = "sweeping", !.aggregate = "pending"],
          log |-> l]

\* Variant: the summary is built with an initial value, an empty list of
\* stacks raises nothing.
SummariseEmptyList ==
    /\ main.pc = "listed"
    /\ LET stacks == FilterStacks(main.summaries, args.prefix)
           m1 == [main EXCEPT !.stacks = stacks]
           l1 == Logged(log, "remove stacks")
           pls == LaunchPipelines(StackNamesOf(stacks), ChunkSize(revision))
       IN  IF AcceptsYes(revision) /\ args.yes
           THEN /\ main' = Launched(m1, l1, pls).main
                /\ log' = Launched(m1, l1, pls).log
                /\ pipelines' = pls
           ELSE /\ main' = [m1 EXCEPT !.pc = "confirm", !.prompts = 1]
                /\ log' = l1
                /\ pipelines' = pipelines
    /\ UNCHANGED <<revision, args, remote, answers, requests,
                   retryVars, classifyVars, chunkVars, backoffVars>>

\* The filter, the summary line, and 'yes || await confirm()' up to the
\* prompt.  reduce() without an initial value throws on an empty array.
Summarise ==
    /\ main.pc = "listed"
    /\ LET stacks == FilterStacks(main.summaries, args.prefix)
           m1 == [main EXCEPT !.stacks = stacks]
           l1 == Logged(log, "remove stacks")
           pls == LaunchPipelines(StackNamesOf(stacks), ChunkSize(revision))
       IN  IF stacks = <<>>
           THEN /\ main' = CatchAll(m1)
                /\ UNCHANGED <<pipelines, log>>
           ELSE IF AcceptsYes(revision) /\ args.yes
           THEN /\ main' = Launched(m1, l1, pls).main
                /\ log' = Launched(m1, l1, pls).log
                /\ pipelines' = pls
           ELSE /\ main' = [m1 EXCEPT !.pc = "confirm", !.prompts = 1]
                /\ log' = l1
                /\ pipelines' = pipelines
    /\ UNCHANGED <<revision, args, remote, answers, requests,
                   retryVars, classifyVars, chunkVars, backoffVars>>

\* confirm(): what one answer leads to.
confirmAcceptsAnything(answer) ==
    LET lowerAnswer == ToLowerCase(answer)
    IN  IF lowerAnswer = <<"n">> \/ lowerAnswer = <<"n","o">>
        THEN "false" ELSE "true"

confirm(answer) ==
    LET lowerAnswer == ToLowerCase(answer)
    IN  IF lowerAnswer = <<"y">> \/ lowerAnswer = <<"y","e","s">>
        THEN "true"
        ELSE IF lowerAnswer = <<"n">> \/ lowerAnswer = <<"n","o">>
        THEN "false"
        ELSE "again"

\* The operator answers the prompt.  The callback of rl.question closes the
\* interface after the first answer, so the question of a second confirm()
\* is asked of a closed interface: rl.question throws, the confirm() promise
\* rejects and the catch block exits.
Answer(a) ==
    /\ main.pc = "confirm"
    /\ answers' = Append(answers, a)
    /\ LET pls == LaunchPipelines(StackNamesOf(main.stacks), ChunkSize(revision))
       IN  CASE confirm(a) = "true" ->
                   /\ main' = Launched(main, log, pls).main
                   /\ log' = Launched(main, log, pls).log
                   /\ pipelines' = pls
             [] confirm(a) = "false" ->
                   /\ main' = [main EXCEPT !.pc = "canceled"]
                   /\ log' = Logged(log, "canceled")
                   /\ pipelines' = pipelines
             [] OTHER ->
                   /\ main' = CatchAll([main EXCEPT !.prompts = @ + 1])
                   /\ UNCHANGED <<pipelines, log>>
    /\ UNCHANGED <<revision, args, remote, requests, retryVars, classifyVars, chunkVars, backoffVars>>

(***************************************************************************)
(* The pipelines: sleep(3000), the delete request, the wait for the        *)
(* deletion to complete.                                                   *)
(***************************************************************************)
WarmupDelay == 3000

\* The values the delete request is rejected with.
SweepErrors == {Throttling, Validation, NoNameValue}

\* client.send(new DeleteStackCommand({ StackName }))
Send(reqs, StackName) == [reqs EXCEPT ![StackName] = @ + 1]

AnyResolved(pls) == \E i \in 1..Len(pls) : pls[i].settled = "resolved"

AllResolved(pls) == \A i \in 1..Len(pls) : pls[i].settled = "resolved"

SettledAll(m, l, pls, i) ==
    IF \A j \in 1..Len(pls) : pls[j].settled # "pending"
    THEN [main |-> [m EXCEPT !.pc = "finished", !.aggregate = "fulfilled"],
          log |-> Logged(l, "done")]
    ELSE [main |-> m, log |-> l]

\* A pipeline promise has settled.  The first rejection rejects the
\* aggregate, which has no rejection handler: node exits with code 1 unless
\* it was started with --unhandled-rejections=warn.
Settled(m, l, pls, i) ==
    IF pls[i].settled = "rejected"
    THEN IF m.aggregate # "pending"
         THEN [main |-> m, log |-> l]
         ELSE IF args.unhandledRejections = "throw"
         THEN [main |-> Exit([m EXCEPT !.aggregate = "rejected"], "1"), log |-> l]
         ELSE [main |-> [m EXCEPT !.aggregate = "rejected"], log |-> l]
    ELSE IF AllResolved(pls)
         THEN [main |-> [m EXCEPT !.pc = "finished", !.aggregate = "fulfilled"],
               log |-> Logged(l, "done")]
         ELSE [main |-> m, log |-> l]

\* The pipelines past their warm-up and not yet settled.
InFlight == {i \in 1..Len(pipelines) : pipelines[i].st \in {"delete", "wait"}}

WarmupOverGated(i) ==
    /\ main.pc = "sweeping"
    /\ pipelines[i].st = "warmup"
    /\ Cardinality(InFlight) < ChunkSize(revision)
    /\ pipelines' = [pipelines EXCEPT
           ![i].st = "delete",
           ![i].sess = IF UsesWithRetry(revision)
                       THEN NewSession(SweepOptions) ELSE IdleSession]
    /\ requests' = [requests EXCEPT ![pipelines[i].StackName] = @ + 1]
    /\ UNCHANGED <<revision, args, remote, answers, main, log,
                   retryVars, classifyVars, chunkVars, backoffVars>>

WarmupSkipsDelete(i) ==
    /\ main.pc = "sweeping"
    /\ pipelines[i].st = "warmup"
    /\ pipelines' = [pipelines EXCEPT ![i].st = "wait"]
    /\ UNCHANGED <<revision, args, remote, answers, main, requests, log,
                   retryVars, classifyVars, chunkVars, backoffVars>>

\* sleep(3000) is over: the delete request is sent, by withRetry in main.js.
WarmupOver(i) ==
    /\ main.pc = "sweeping"
    /\ pipelines[i].st = "warmup"
    /\ pipelines' = [pipelines EXCEPT
           ![i].st = "delete",
           ![i].sess = IF UsesWithRetry(revision)
                       THEN NewSession(SweepOptions) ELSE IdleSession]
    /\ requests' = Send(requests, pipelines[i].StackName)
    /\ UNCHANGED <<revision, args, remote, answers, main, log,
                   retryVars, classifyVars, chunkVars, backoffVars>>

\* The delete request is accepted: the pipeline waits for the deletion.
DeleteResolves(i) ==
    /\ main.pc = "sweeping"
    /\ pipelines[i].st = "delete"
    /\ UsesWithRetry(revision) => pipelines[i].sess.pc = "awaiting"
    /\ pipelines' = [pipelines EXCEPT ![i].st = "wait", ![i].sess = IdleSession]
    /\ UNCHANGED <<revision, args, remote, answers, main, requests, log,
                   retryVars, classifyVars, chunkVars, backoffVars>>

\* The delete request is rejected.  main.mts logs the error and goes on to
\* wait; main.js leaves it to the catch block of withRetry.
DeleteRejects(i, error, k) ==
    /\ main.pc = "sweeping"
    /\ pipelines[i].st = "delete"
    /\ IF ~UsesWithRetry(revision)
       THEN /\ pipelines' = [pipelines EXCEPT ![i].st = "wait",
                                              ![i].deleteFailed = TRUE]
            /\ log' = Logged(log, "error")
            /\ main' = main
       ELSE /\ pipelines[i].sess.pc = "awaiting"
            /\ LET caught == Catch(pipelines[i].sess, error,
                                   pipelines[i].sess.attempt + 1, k)
                   pls == IF caught.sess.pc = "threw"
                          THEN [pipelines EXCEPT ![i].st = "settled",
                                                 ![i].sess = IdleSession,
                                                 ![i].settled = "rejected",
                                                 ![i].failedAt = "delete",
                                                 ![i].deleteFailed = TRUE]
                          ELSE [pipelines EXCEPT ![i].sess = caught.sess]
               IN  /\ pipelines' = pls
                   /\ main' = Settled(main, log, pls, i).main
                   /\ log' = Settled(main, log, pls, i).log
    /\ UNCHANGED <<revision, args, remote, answers, requests,
                   retryVars, classifyVars, chunkVars, backoffVars>>

\* The sleep of withRetry is over: the loop invokes the operation again.
BackoffOver(i) ==
    /\ main.pc = "sweeping"
    /\ pipelines[i].st = "delete"
    /\ pipelines[i].sess.pc = "sleeping"
    /\ pipelines' = [pipelines EXCEPT ![i].sess = Resume(@)]
    /\ requests' = Send(requests, pipelines[i].StackName)
    /\ UNCHANGED <<revision, args, remote, answers, main, log,
                   retryVars, classifyVars, chunkVars, backoffVars>>

\* waitUntilStackDeleteComplete resolves or, on FAILURE or TIMEOUT, throws.
WaitCompletes(i, ok) ==
    /\ main.pc = "sweeping"
    /\ pipelines[i].st = "wait"
    /\ LET pls == [pipelines EXCEPT
                      ![i].st = "settled",
                      ![i].settled = IF ok THEN "resolved" ELSE "rejected",
                      ![i].failedAt = IF ok THEN "" ELSE "wait"]
       IN  /\ pipelines' = pls
           /\ main' = Settled(main, log, pls, i).main
           /\ log' = Settled(main, log, pls, i).log
    /\ UNCHANGED <<revision, args, remote, answers, requests,
                   retryVars, classifyVars, chunkVars, backoffVars>>

\* The draws of Math.random() the sweeps are checked with: the smallest and
\* the largest.
SweepDraws == {0, RandDen - 1}

Next ==
    \/ ParseArgs
    \/ ListPage
    \/ ListFails
    \/ Summarise
    \/ \E a \in Answers : Answer(a)
    \/ \E i \in 1..Len(pipelines) : WarmupOver(i)
    \/ \E i \in 1..Len(pipelines) : DeleteResolves(i)
    \/ \E i \in 1..Len(pipelines), error \in SweepErrors, k \in SweepDraws :
           DeleteRejects(i, error, k)
    \/ \E i \in 1..Len(pipelines) : BackoffOver(i)
    \/ \E i \in 1..Len(pipelines), ok \in BOOLEAN : WaitCompletes(i, ok)

Spec == Init /\ [][Next]_vars

(***************************************************************************)
(* SweepSpec: main.js with --yes under node's default handling of          *)
(* rejections, with a prefix that every stack of the listing matches, so   *)
(* that a sweep has up to MaxTargets pipelines.  With --yes the prompt is  *)
(* never shown: the steps are those of Next without Answer.                *)
(***************************************************************************)
SweepInit ==
    /\ revision = "main.js"
    /\ args \in {a \in CommandLines :
                    /\ ~a.help /\ ~a.version /\ a.yes
                    /\ a.prefix = Prefix(<<"a","b">>)
                    /\ a.unhandledRejections = "throw"}
    /\ remote \in [stacks : TargetListings, pageSize : {PageSize}]
    /\ answers = <<>>
    /\ main = NewMain
    /\ pipelines = <<>>
    /\ requests = [n \in RequestNames |-> 0]
    /\ log = [kind \in LogKinds |-> 0]
    /\ IdleRetry
    /\ IdleClassify
    /\ IdleChunk
    /\ IdleBackoff

SweepNext ==
    \/ ParseArgs
    \/ ListPage
    \/ ListFails
    \/ Summarise
    \/ \E i \in 1..Len(pipelines) : WarmupOver(i)
    \/ \E i \in 1..Len(pipelines) : DeleteResolves(i)
    \/ \E i \in 1..Len(pipelines), error \in SweepErrors, k \in SweepDraws :
           DeleteRejects(i, error, k)
    \/ \E i \in 1..Len(pipelines) : BackoffOver(i)
    \/ \E i \in 1..Len(pipelines), ok \in BOOLEAN : WaitCompletes(i, ok)

SweepSpec == SweepInit /\ [][SweepNext]_vars

(***************************************************************************)
(* ChunkSpec: one call of arrayChunk.                                      *)
(***************************************************************************)
Identifiers == {"s", "t"}

RECURSIVE ArraysOfLen(_)
ArraysOfLen(n) ==
    IF n = 0 THEN {<<>>}
    ELSE {Append(a, x) : a \in ArraysOfLen(n - 1), x \in Identifiers}

Arrays == UNION {ArraysOfLen(n) : n \in 0..MaxLen}

ChunkInit ==
    /\ \E array \in Arrays, size \in 1..MaxChunkSize :
          chunking = [array |-> array, size |-> size, before |-> array,
                      chunks |-> <<>>, pc |-> "called"]
    /\ IdleRetry
    /\ IdleClassify
    /\ IdleMain
    /\ IdleBackoff

\* function arrayChunk([...array], size): the parameter is a copy of the
\* caller's array, which reduce and slice read only.
ArrayChunk ==
    /\ chunking.pc = "called"
    /\ LET copy == chunking.array
       IN  chunking' = [chunking EXCEPT !.chunks = arrayChunk(copy, chunking.size),
                                        !.pc = "returned"]
    /\ UNCHANGED <<retryVars, classifyVars, mainVars, backoffVars>>

ChunkNext == ArrayChunk

ChunkSpec == ChunkInit /\ [][ChunkNext]_vars

(***************************************************************************)
(* BackoffSpec: one calculator, built by createBackoffCalculator from a    *)
(* configuration, asked for delays with any attempt numbers and reset at   *)
(* any time.  A second calculator built from the same configuration gets   *)
(* the same calls with its own draws of Math.random().                     *)
(***************************************************************************)
\* The largest attempt number and the most calls of nextDelay.
MaxBackoffAttempt == 3
MaxCalls == 3

JitterFactors == {Fraction(0, 1), Fraction(3, 10), Fraction(1, 2), Fraction(1, 1)}

\* The options of the sweep in the revision between main.mts and main.js.
MidSweepOptions ==
    [strategy |-> DECORRELATED_JITTER, maxAttempts |-> 5, baseDelay |-> 10000,
     maxDelay |-> 200000, jitterFactor |-> Fraction(3, 10)]

\* baseDelay and maxDelay: below, and (the last pair) above maxDelay.
DelayPairs == {<<1, 3>>, <<10, 30>>, <<10, 5>>}

BackoffConfigs ==
    {[strategy |-> s, baseDelay |-> d[1], maxDelay |-> d[2], jitterFactor |-> jf] :
        s \in {EXPONENTIAL, DECORRELATED_JITTER, FULL_JITTER},
        d \in DelayPairs, jf \in JitterFactors}
    \cup {ResolveConfig(NoOptions), ResolveConfig(SweepOptions),
          ResolveConfig(MidSweepOptions)}

BackoffInit ==
    /\ \E config \in BackoffConfigs : calc = NewCalc(config)
    /\ IdleRetry
    /\ IdleClassify
    /\ IdleMain
    /\ IdleChunk

\* backoff.nextDelay(attempt) on both calculators, with Math.random() = k /
\* RandDen in the first and k2 / RandDen in the second.
NextDelay(attempt, k, k2) ==
    /\ calc.pc = "ready"
    /\ calc.total < MaxCalls
    /\ LET r == nextDelay(calc.backoff, calc.config, attempt, k)
           t == nextDelay(calc.twin, calc.config, attempt, k2)
       IN  calc' = [calc EXCEPT !.backoff = r.backoff, !.twin = t.backoff,
                                !.attempt = attempt,
                                !.delay = r.delay, !.twinDelay = t.delay,
                                !.prev = [attempt |-> calc.attempt,
                                          delay |-> calc.delay],
                                !.calls = @ + 1, !.total = @ + 1]
    /\ UNCHANGED <<retryVars, classifyVars, mainVars, chunkVars>>

\* backoff.reset() on both calculators.
Reset ==
    /\ calc.pc = "ready"
    /\ calc.calls > 0
    /\ calc' = [calc EXCEPT !.backoff = reset(calc.backoff, calc.config),
                            !.twin = reset(calc.twin, calc.config),
                            !.calls = 0]
    /\ UNCHANGED <<retryVars, classifyVars, mainVars, chunkVars>>

BackoffNext ==
    \/ \E attempt \in 1..MaxBackoffAttempt, k \in 0..(RandDen - 1),
          k2 \in 0..(RandDen - 1) : NextDelay(attempt, k, k2)
    \/ Reset

BackoffSpec == BackoffInit /\ [][BackoffNext]_vars

(***************************************************************************)
(* Properties of the main script, checked under Spec.                      *)
(***************************************************************************)
DeleteRequests == {n \in DOMAIN requests : requests[n] > 0}

LastAnswer == ToLowerCase(answers[Len(answers)])

Listed(name) ==
    \E i \in 1..Len(remote.stacks) :
        remote.stacks[i].named /\ remote.stacks[i].name = name

\* A listed stack that has a name, which starts with the prefix if one is
\* given.
Matching(stack) ==
    /\ stack.named
    /\ Truthy(args.prefix) => StartsWith(stack.name, args.prefix.value)

PipelinesOf(name) == {i \in 1..Len(pipelines) : pipelines[i].StackName = name}

\* C1: a delete request is sent only when --yes was given or the answer to
\* the prompt, lower-cased, is 'y' or 'yes'; after the answer 'n' or 'no' no
\* delete request has been sent and 'canceled' has been logged.
C1_DeleteOnlyWhenConfirmed ==
    /\ DeleteRequests # {} =>
          \/ args.yes
          \/ answers # <<>> /\ LastAnswer \in {<<"y">>, <<"y","e","s">>}
    /\ (answers # <<>> /\ LastAnswer \in {<<"n">>, <<"n","o">>}) =>
          /\ DeleteRequests = {}
          /\ pipelines = <<>>
          /\ log["canceled"] = 1

\* A sweep confirmed by the answer 'YES', without --yes, has sent a delete
\* request.
C1_Witness ==
    /\ ~args.yes
    /\ answers = <<<<"Y","E","S">>>>
    /\ DeleteRequests # {}

\* C2: every delete request names a listed stack whose name starts with the
\* given prefix; a stack without a name gets none; once the sweep is
\* launched every matching stack of the listing has exactly one pipeline
\* and there is no other pipeline.
C2_DeletesOnlyMatchingStacks ==
    /\ \A name \in DeleteRequests :
          /\ name # NoName
          /\ Listed(name)
          /\ Truthy(args.prefix) => StartsWith(name, args.prefix.value)
    /\ main.aggregate # "none" =>
          /\ \A i \in 1..Len(remote.stacks) :
                Cardinality(PipelinesOf(remote.stacks[i].name)) =
                    IF Matching(remote.stacks[i]) THEN 1 ELSE 0
          /\ \A i \in 1..Len(pipelines) : Listed(pipelines[i].StackName)

\* A sweep over a listing that holds a stack which starts with the prefix,
\* one which only contains it and one without name has sent a delete
\* request.
C2_Witness ==
    /\ args.prefix = Prefix(<<"a","b">>)
    /\ remote.stacks = <<Stack(<<"a","b">>), UnnamedStack, Stack(<<"c","a","b">>)>>
    /\ requests[<<"a","b">>] > 0

\* The delete requests one pipeline may send: maxAttempts with withRetry,
\* one without.
AttemptsAllowed == IF UsesWithRetry(revision) THEN SweepMaxAttempts ELSE 1

RECURSIVE SumOver(_, _)
SumOver(f, S) ==
    IF S = {} THEN 0
    ELSE LET x == CHOOSE y \in S : TRUE IN f[x] + SumOver(f, S \ {x})

TotalRequests == SumOver(requests, DOMAIN requests)

\* C11: the delete operation is invoked at most maxAttempts times for each
\* identifier (3 in main.js), whatever the failures and their interleaving,
\* so a sweep sends at most maxAttempts times the number of targets.
C11_AtMostMaxAttemptsPerTarget ==
    /\ \A name \in DOMAIN requests :
          requests[name] <= AttemptsAllowed * Cardinality(PipelinesOf(name))
    /\ UsesWithRetry(revision) =>
          \A name \in DOMAIN requests : requests[name] <= 3
    /\ TotalRequests <= AttemptsAllowed * Len(pipelines)

\* Two pipelines of main.js have each used all their attempts, one of them
\* having failed for good.
C11_Witness ==
    /\ revision = "main.js"
    /\ \E i, j \in 1..Len(pipelines) :
          /\ i # j
          /\ requests[pipelines[i].StackName] = SweepMaxAttempts
          /\ requests[pipelines[j].StackName] = SweepMaxAttempts
          /\ pipelines[i].failedAt = "delete"
          /\ pipelines[j].st = "delete"

SweepLaunched == main.aggregate # "none"

Unsettled == {i \in 1..Len(pipelines) : pipelines[i].settled = "pending"}
Succeeded == {i \in 1..Len(pipelines) : pipelines[i].settled = "resolved"}
Failed == {i \in 1..Len(pipelines) : pipelines[i].settled = "rejected"}

\* C12: 'done' is logged at most once, never while a pipeline of the sweep is
\* unsettled, and it has been logged as soon as the last pipeline of a sweep
\* whose pipelines all succeed has settled.
C12_DoneOnceAfterAllSettled ==
    /\ log["done"] <= 1
    /\ log["done"] = 1 => SweepLaunched /\ Unsettled = {}
    /\ (SweepLaunched /\ Succeeded = 1..Len(pipelines)) => log["done"] = 1

\* A sweep of three pipelines, one of which needed a retry, has logged 'done'.
C12_Witness ==
    /\ Len(pipelines) = 3
    /\ Succeeded = 1..3
    /\ \E i \in 1..3 : requests[pipelines[i].StackName] >= 2
    /\ log["done"] = 1

\* C13 as stated: once every pipeline of the sweep has settled, by success
\* or by failure, 'done' has been logged.
C13_DoneWhenAllSettled ==
    (SweepLaunched /\ Unsettled = {}) => log["done"] = 1

\* C13 amended: once every pipeline has settled, 'done' has been logged if
\* and only if every pipeline succeeded; a failure rejects the aggregate and
\* 'done' is never logged, also after the last pipeline has settled.
C13_DoneIffAllSucceeded ==
    /\ (SweepLaunched /\ Unsettled = {}) => (log["done"] = 1 <=> Failed = {})
    /\ Failed # {} => log["done"] = 0 /\ main.aggregate = "rejected"

\* Every pipeline of a sweep has settled, one by failure and one by success.
C13_Witness ==
    /\ SweepLaunched
    /\ Unsettled = {}
    /\ Failed # {}
    /\ Succeeded # {}
    /\ log["done"] = 0

\* The scheduling of node: a timer that is due fires and a remote call
\* returns, so the script does not stop while a step of it is enabled.
FairSpec == Spec /\ WF_vars(Next)

\* C14 as stated: a pipeline that has failed leaves its siblings running;
\* each sibling that has not settled can still take its own steps.
C14_FailureLeavesSiblingsRunning ==
    (Failed # {} /\ Unsettled # {}) => main.pc = "sweeping"

\* C15 as stated: every launched pipeline eventually settles, as DONE or as
\* FAILED.
C15_EveryPipelineSettles ==
    \A i \in 1..MaxStacks :
        [](i \in DOMAIN pipelines =>
              <>(i \in DOMAIN pipelines /\ pipelines[i].settled # "pending"))

\* The same, for a node started with --unhandled-rejections=warn.
C15_SettlesWhenRejectionsWarn ==
    \A i \in 1..MaxStacks :
        [](i \in DOMAIN pipelines /\ args.unhandledRejections = "warn" =>
              <>(i \in DOMAIN pipelines /\ pipelines[i].settled # "pending"))

\* The delete request of one pipeline was rejected for good while a sibling
\* was in its warm-up: the process has exited with code 1.
C14_Witness ==
    /\ main.exit = "1"
    /\ \E i, j \in 1..Len(pipelines) :
          /\ pipelines[i].failedAt = "delete"
          /\ pipelines[j].st = "warmup"

\* The process has exited while a pipeline was waiting for its deletion to
\* complete.
C15_Witness ==
    /\ main.pc = "exited"
    /\ \E i \in 1..Len(pipelines) : pipelines[i].st = "wait"

\* The steps a pipeline takes, in order; a delete request that fails for good
\* settles the pipeline without a wait.
StepOrder ==
    {<<"warmup", "delete">>, <<"delete", "wait">>, <<"delete", "settled">>,
     <<"wait", "settled">>}

\* Where every pipeline stands agrees with the requests sent for its stack.
StepsInOrder ==
    \A i \in 1..Len(pipelines) :
        LET p == pipelines[i] IN
        /\ p.st = "warmup" => requests[p.StackName] = 0
        /\ p.st \in {"delete", "wait"} => requests[p.StackName] >= 1
        /\ p.st = "wait" => p.sess = IdleSession
        /\ p.st = "settled" <=> p.settled # "pending"

\* A pipeline moves along StepOrder only, and a delete request is sent only
\* at the end of the warm-up or of a backoff sleep of its own pipeline.
StepsAdvance ==
    \A i \in 1..Len(pipelines) :
        i <= Len(pipelines') =>
            LET p == pipelines[i]
                q == pipelines'[i] IN
            /\ q.StackName = p.StackName
            /\ q.st # p.st => <<p.st, q.st>> \in StepOrder
            /\ requests'[p.StackName] # requests[p.StackName] =>
                  /\ requests'[p.StackName] = requests[p.StackName] + 1
                  /\ q.st = "delete"
                  /\ \/ p.st = "warmup"
                     \/ p.st = "delete" /\ p.sess.pc = "sleeping"

\* C16: for each identifier the steps are warm-up, delete request with its
\* retries, wait for completion, settle, in this order: no delete request is
\* sent before the warm-up is over and the wait never starts before the
\* delete request has returned.
C16_PipelineStepsInOrder == []StepsInOrder /\ [][StepsAdvance]_vars

\* One pipeline has settled after a retried delete request and a wait while
\* another is still in its warm-up.
C16_Witness ==
    \E i, j \in 1..Len(pipelines) :
        /\ pipelines[i].settled = "resolved"
        /\ requests[pipelines[i].StackName] = 2
        /\ pipelines[j].st = "warmup"

Max(a, b) == IF a >= b THEN a ELSE b

C19_ChunksPartitionInput ==
    chunking.pc = "returned" =>
        LET array == chunking.before
            size == chunking.size
            chunks == chunking.chunks
            n == Len(chunks) IN
        /\ Flatten(chunks) = array
        /\ \A c \in 1..(n - 1) : Len(chunks[c]) = size
        /\ n > 0 => Len(chunks[n]) \in 1..size
        /\ \A c \in 1..n : \A j \in 1..Len(chunks[c]) :
              chunks[c][j] = array[(c - 1) * size + j]
        /\ n * size >= Len(array) /\ (n - 1) * size < Max(Len(array), 1)
        /\ (Len(array) = 7 /\ size = 3) =>
              [c \in 1..n |-> Len(chunks[c])] = <<3, 3, 1>>
        /\ chunking.array = array

\* arrayChunk has returned the chunks of an array of 7 elements for size 3.
C19_Witness ==
    /\ chunking.pc = "returned"
    /\ Len(chunking.array) = 7
    /\ chunking.size = 3
    /\ Len(chunking.chunks) = 3

(***************************************************************************)
(* Properties of concurrent retry sessions, checked under Spec.            *)
(***************************************************************************)
\* The calculators a session on its own can hold after n calls of nextDelay.
RECURSIVE IsolatedCalculators(_, _)
IsolatedCalculators(config, n) ==
    IF n = 0 THEN {createBackoffCalculator(config)}
    ELSE {nextDelay(b, config, n, k).backoff :
             b \in IsolatedCalculators(config, n - 1), k \in 0..(RandDen - 1)}

Retrying == {i \in 1..Len(pipelines) : pipelines[i].sess.pc \in {"awaiting", "sleeping"}}

\* Every session holds a calculator it could hold on its own.
OwnCalculator ==
    \A i \in Retrying :
        LET sess == pipelines[i].sess IN
        /\ sess.backoff \in IsolatedCalculators(sess.config, sess.attempt)
        /\ sess.pc = "sleeping" =>
              \E b \in IsolatedCalculators(sess.config, sess.attempt - 1),
                 k \in 0..(RandDen - 1) :
                  /\ nextDelay(b, sess.config, sess.attempt, k).delay = sess.delay
                  /\ nextDelay(b, sess.config, sess.attempt, k).backoff = sess.backoff

\* A step of one session leaves the session of every other pipeline as it is.
OneSessionPerStep ==
    \A i, j \in 1..Len(pipelines) :
        (/\ i # j
         /\ Len(pipelines') = Len(pipelines)
         /\ pipelines'[i].sess # pipelines[i].sess) =>
            pipelines'[j] = pipelines[j]

\* C20: each withRetry call has a backoff calculator of its own: with several
\* sessions interleaved, nextDelay of one session neither reads nor changes
\* the lastDelay of another, and the delays a session can draw are those it
\* can draw on its own.
C20_CalculatorPerSession == []OwnCalculator /\ [][OneSessionPerStep]_vars

\* Two sessions sleep at the same time, one after its second failure with a
\* lastDelay the other, after its first failure, cannot have.
C20_Witness ==
    \E i, j \in Retrying :
        /\ pipelines[i].sess.pc = "sleeping" /\ pipelines[i].sess.attempt = 2
        /\ pipelines[j].sess.pc = "sleeping" /\ pipelines[j].sess.attempt = 1
        /\ pipelines[i].sess.backoff \notin
              IsolatedCalculators(pipelines[j].sess.config, 1)

(***************************************************************************)
(* Properties of the resolution of the options, checked under RetrySpec.   *)
(***************************************************************************)
\* C26: withRetry resolves each option on its own against the defaults
\* strategy EXPONENTIAL, baseDelay 1000, maxDelay 20000, jitterFactor 0.2
\* and maxAttempts 3: an absent field takes its default, a supplied field
\* (jitterFactor = 0 included) keeps the supplied value.
C26_OptionsResolvedFieldByField ==
    rs.pc # "idle" =>
        /\ rs.config.strategy =
              IF "strategy" \in DOMAIN options THEN options.strategy
              ELSE "exponential"
        /\ rs.config.baseDelay =
              IF "baseDelay" \in DOMAIN options THEN options.baseDelay ELSE 1000
        /\ rs.config.maxDelay =
              IF "maxDelay" \in DOMAIN options THEN options.maxDelay ELSE 20000
        /\ rs.config.jitterFactor =
              IF "jitterFactor" \in DOMAIN options THEN options.jitterFactor
              ELSE [num |-> 2, den |-> 10]
        /\ rs.maxAttempts =
              IF "maxAttempts" \in DOMAIN options THEN options.maxAttempts ELSE 3

\* Only jitterFactor = 0 was supplied: the session sleeps for exactly the
\* default baseDelay after its first failure.
C26_Witness ==
    /\ DOMAIN options = {"jitterFactor"}
    /\ options.jitterFactor.num = 0
    /\ rs.pc = "sleeping"
    /\ rs.attempt = 1
    /\ rs.config.jitterFactor.num = 0
    /\ rs.config.maxDelay = 20000
    /\ rs.maxAttempts = 3
    /\ rs.delay = 1000 * DelayScale(rs.config)

(***************************************************************************)
(* Properties of the backoff calculators, checked under BackoffSpec.       *)
(* calc.delay is the delay returned last, in units of 1 / DelayScale ms.   *)
(***************************************************************************)
Asked == calc.pc = "ready" /\ calc.attempt >= 1

\* min(baseDelay * 2^(attempt-1), maxDelay), in ms.
CappedExponential(config, attempt) ==
    Min(config.baseDelay * Pow2(attempt - 1), config.maxDelay)

\* C21: Exponential nextDelay(attempt) with jitterFactor = 0 returns exactly
\* min(baseDelay * 2^(attempt-1), maxDelay); a second calculator with the
\* same configuration returns the same delay for the same call, and of two
\* calls the one with the larger attempt does not return the smaller delay.
C21_ExponentialWithoutJitterIsExact ==
    (/\ Asked
     /\ calc.config.strategy = EXPONENTIAL
     /\ calc.config.jitterFactor.num = 0)
    => /\ calc.delay = CappedExponential(calc.config, calc.attempt)
                          * DelayScale(calc.config)
       /\ calc.twinDelay = calc.delay
       /\ (calc.prev.attempt >= 1 /\ calc.prev.attempt <= calc.attempt)
              => calc.prev.delay <= calc.delay
       /\ calc.prev.attempt >= calc.attempt => calc.prev.delay >= calc.delay

\* The delay of attempt 1 was baseDelay and the delay of the last attempt
\* is maxDelay, which the doubling has passed.
C21_Witness ==
    /\ Asked
    /\ calc.config.strategy = EXPONENTIAL
    /\ calc.config.jitterFactor.num = 0
    /\ calc.config.baseDelay < calc.config.maxDelay
    /\ calc.prev.attempt = 1
    /\ calc.attempt = MaxBackoffAttempt
    /\ calc.config.baseDelay * Pow2(calc.attempt - 1) > calc.config.maxDelay
    /\ calc.prev.delay = calc.config.baseDelay * DelayScale(calc.config)
    /\ calc.delay = calc.config.maxDelay * DelayScale(calc.config)

\* C22: Full Jitter nextDelay(attempt) lies in
\* [0, min(baseDelay * 2^(attempt-1), maxDelay)].
C22_FullJitterWithinCeiling ==
    (Asked /\ calc.config.strategy = FULL_JITTER)
    => /\ calc.delay >= 0
       /\ calc.delay <= CappedExponential(calc.config, calc.attempt)
                           * DelayScale(calc.config)

\* The largest draw against a ceiling that maxDelay caps.
C22_Witness ==
    /\ Asked
    /\ calc.config.strategy = FULL_JITTER
    /\ calc.config.baseDelay < calc.config.maxDelay
    /\ calc.config.baseDelay * Pow2(calc.attempt - 1) > calc.config.maxDelay
    /\ calc.delay = (RandDen - 1) * calc.config.maxDelay
                       * calc.config.jitterFactor.den

\* The configurations C23, C24 and C25 speak of.
Ordered(config) == config.baseDelay <= config.maxDelay

\* C23: the first delay of a fresh or just reset Decorrelated Jitter
\* calculator lies in [baseDelay, min(maxDelay, jitterFactor*3*baseDelay)],
\* whenever baseDelay <= maxDelay and jitterFactor > 0.
C23_FirstDelayFromBaseToTriple ==
    (/\ Asked
     /\ calc.config.strategy = DECORRELATED_JITTER
     /\ Ordered(calc.config)
     /\ calc.config.jitterFactor.num > 0
     /\ calc.calls = 1)
    => LET jf == calc.config.jitterFactor
       IN  /\ calc.delay >= calc.config.baseDelay * DelayScale(calc.config)
           /\ calc.delay <= Min(calc.config.maxDelay * jf.den,
                                jf.num * 3 * calc.config.baseDelay) * RandDen

\* The first delay after a reset is below baseDelay.
C23_FirstDelayBelowBase ==
    /\ Asked
    /\ calc.config.strategy = DECORRELATED_JITTER
    /\ Ordered(calc.config)
    /\ calc.config.jitterFactor.num > 0
    /\ calc.calls = 1
    /\ calc.total > 1
    /\ calc.delay < calc.config.baseDelay * DelayScale(calc.config)

\* C24: without reset, Decorrelated Jitter nextDelay never returns a value
\* below baseDelay nor above maxDelay, whenever baseDelay <= maxDelay and
\* jitterFactor > 0.
C24_DelaysFromBaseToMax ==
    (/\ Asked
     /\ calc.config.strategy = DECORRELATED_JITTER
     /\ Ordered(calc.config)
     /\ calc.config.jitterFactor.num > 0
     /\ calc.calls >= 1)
    => /\ calc.delay >= calc.config.baseDelay * DelayScale(calc.config)
       /\ calc.delay <= calc.config.maxDelay * DelayScale(calc.config)

\* With the options of the middle revision of the sweep the delays fall
\* below baseDelay and keep falling.
C24_DelaysShrinkBelowBase ==
    /\ Asked
    /\ calc.config = ResolveConfig(MidSweepOptions)
    /\ calc.calls = MaxCalls
    /\ calc.prev.delay < calc.config.baseDelay * DelayScale(calc.config)
    /\ calc.delay < calc.prev.delay

ListingReturned ==
    main.pc \in {"listed", "confirm", "sweeping", "finished", "canceled"}

\* C27: listStacks follows each returned pagination token until a response
\* carries none and returns the concatenation of the pages' summaries in
\* page order; for a listing of k pages it issues exactly k list requests
\* and then stops.
C27_ListingFollowsEveryToken ==
    /\ main.lists <= NumPages(remote)
    /\ main.pc = "listing" =>
          /\ main.lists = main.token - 1
          /\ main.lists < NumPages(remote)
          /\ main.summaries =
                SubSeq(remote.stacks, 1,
                       Min(main.lists * remote.pageSize, Len(remote.stacks)))
    /\ ListingReturned =>
          /\ main.lists = NumPages(remote)
          /\ main.summaries = remote.stacks

\* A listing of two pages, the second shorter than the first, is returned
\* whole after two requests.
C27_Witness ==
    /\ main.pc = "listed"
    /\ NumPages(remote) = 2
    /\ Len(remote.stacks) = 2 * remote.pageSize - 1
    /\ main.lists = 2
    /\ main.summaries = remote.stacks

\* The command line asks for neither the help text nor the version.
AsksForSweep == ~args.help /\ ~args.version

\* C28: when --prefix is absent or empty, the process exits with code 1 and
\* has issued neither a list request nor a delete request.
C28_NoPrefixExitsBeforeAnyRequest ==
    (main.pc # "start" /\ AsksForSweep /\ ~Truthy(args.prefix))
    => /\ main.pc = "exited"
       /\ main.exit = "1"
       /\ main.lists = 0
       /\ DeleteRequests = {}

\* main.js does what C28 says.
C28_MainJsExitsWithoutPrefix ==
    revision = "main.js" => C28_NoPrefixExitsBeforeAnyRequest

\* main.mts without a prefix: every named stack of the listing, whatever its
\* name, has received a delete request.
C28_EveryStackDeletedWithoutPrefix ==
    /\ revision = "main.mts"
    /\ AsksForSweep
    /\ ~Truthy(args.prefix)
    /\ main.lists = NumPages(remote)
    /\ Cardinality(DeleteRequests) >= 2
    /\ DeleteRequests = Range(StackNamesOf(remote.stacks))
    /\ \E n \in DeleteRequests : ~StartsWith(n, <<"a","b">>)

\* arg(argConfig) knows every option of the command line.
ArgAccepts == args.yes => AcceptsYes(revision)

\* The help text or the version has been displayed, the help text if both
\* were asked for, and nothing else has been done.
DisplayedOnly ==
    /\ main.pc = "exited"
    /\ main.exit = "0"
    /\ log["help"] = (IF args.help THEN 1 ELSE 0)
    /\ log["version"] = (IF args.help THEN 0 ELSE 1)
    /\ main.lists = 0
    /\ DeleteRequests = {}

C30_UnrecognisedAnswerPromptsAgain ==
    (answers # <<>> /\ confirm(answers[Len(answers)]) = "again")
    => main.pc = "confirm"

\* After the answer 'ye' the script has called question a second time and
\* has exited with code 1; no stack was deleted.
C30_UnrecognisedAnswerExits ==
    /\ answers = << <<"y","e">> >>
    /\ main.prompts = 2
    /\ main.pc = "exited"
    /\ main.exit = "1"
    /\ DeleteRequests = {}

(***************************************************************************)
(* Further properties of one retry session, checked under RetrySpec.       *)
(***************************************************************************)
\* The number of invocations among the first i events.
InvocationsBefore(i) ==
    Cardinality({j \in 1..(i - 1) : events[j].op = "invoke"})

\* The delays the calculator of the session can have returned last.
ComputedDelays ==
    IF rs.backoff.class = "DecorrelatedJitterBackoff"
    THEN {rs.backoff.lastDelay * DelayScale(rs.config)}
    ELSE {nextDelay(rs.backoff, rs.config, rs.attempt, k).delay :
             k \in 0..(RandDen - 1)}

\* C31: between two consecutive invocations of a session there is exactly
\* one nextDelay call, one warning and one suspension, in that order, the
\* suspension for the delay computed and reported; the attempt passed to
\* nextDelay is the number of invocations that have failed so far; a session
\* that is invoking the operation or has ended has emitted one warning less
\* than it has made invocations.
C31_OneBackoffBetweenInvocations ==
    /\ \A i \in 1..Len(events) :
          /\ events[i].op = "invoke" =>
                /\ events[i].attempt = InvocationsBefore(i) + 1
                /\ i > 1 => events[i - 1].op = "sleep"
          /\ events[i].op = "nextDelay" =>
                /\ i > 1 /\ events[i - 1].op = "invoke"
                /\ events[i].attempt = InvocationsBefore(i)
                /\ \A j \in 1..events[i].attempt : ~history[j].ok
          /\ events[i].op = "warn" =>
                /\ i > 1 /\ events[i - 1].op = "nextDelay"
                /\ events[i].attempt = events[i - 1].attempt
          /\ events[i].op = "sleep" =>
                /\ i > 1 /\ events[i - 1].op = "warn"
                /\ events[i].attempt = events[i - 1].attempt
                /\ events[i].delay = events[i - 1].delay
    /\ rs.pc = "sleeping" =>
          /\ events[Len(events)].op = "sleep"
          /\ events[Len(events)].delay = rs.delay
          /\ rs.delay \in ComputedDelays
          /\ Count("warn") = Invocations
    /\ rs.pc \in {"awaiting", "returned", "threw"} =>
          /\ Count("warn") = Invocations - 1
          /\ Count("nextDelay") = Invocations - 1
          /\ Count("sleep") = Invocations - 1

\* A session of three invocations, the last of which succeeded: two
\* backoffs, with the attempts 1 and 2.
C31_Witness ==
    /\ rs.pc = "returned"
    /\ Len(events) = 9
    /\ Invocations = 3
    /\ Count("warn") = 2
    /\ events[2] = Effect("nextDelay", 1, 0)
    /\ events[6] = Effect("nextDelay", 2, 0)
    /\ events[8].op = "sleep"
    /\ events[8].delay = events[7].delay
    /\ events[8].delay > 0

(***************************************************************************)
(* Further properties of the main script, checked under Spec.              *)
(***************************************************************************)
\* C32: a pipeline whose delete request has failed terminally (an error
\* that is not retried, or the last attempt) settles as failed at the
\* delete request: the wait for completion is not invoked for its stack.
C32_FailedDeleteSettlesWithoutWait ==
    \A i \in 1..Len(pipelines) :
        pipelines[i].deleteFailed =>
            /\ pipelines[i].st = "settled"
            /\ pipelines[i].settled = "rejected"
            /\ pipelines[i].failedAt = "delete"

\* main.js does what C32 says.
C32_MainJsFailedDeleteSettlesWithoutWait ==
    revision = "main.js" => C32_FailedDeleteSettlesWithoutWait

\* main.mts: the delete request of the only pipeline failed, the wait was
\* invoked and resolved, and the sweep reported 'done'.
C32_FailedDeleteWaitedAndDone ==
    /\ revision = "main.mts"
    /\ Len(pipelines) = 1
    /\ pipelines[1].deleteFailed
    /\ pipelines[1].settled = "resolved"
    /\ log["error"] = 1
    /\ log["done"] = 1

\* A pipeline that is in a backoff wait of withRetry.
Waiting(i) == pipelines[i].st = "delete" /\ pipelines[i].sess.pc = "sleeping"

\* The wait of pipeline i, in ms, lies in [from, to].
WaitWithin(i, from, to) ==
    /\ pipelines[i].sess.delay >= from * DelayScale(pipelines[i].sess.config)
    /\ pipelines[i].sess.delay <= to * DelayScale(pipelines[i].sess.config)

\* C35: with the options the sweep passes to withRetry, every backoff wait
\* of every pipeline lies in [30000, 300000] ms, the first wait of a
\* session in [30000, 90000] ms, and a session waits at most twice.
C35_SweepWaitsWithinBounds ==
    \A i \in 1..Len(pipelines) :
        /\ pipelines[i].sess.pc # "idle" =>
              /\ pipelines[i].sess.config =
                    [strategy |-> "decorrelated-jitter", baseDelay |-> 30000,
                     maxDelay |-> 300000, jitterFactor |-> [num |-> 1, den |-> 1]]
              /\ pipelines[i].sess.maxAttempts = 3
        /\ Waiting(i) =>
              /\ WaitWithin(i, 30000, 300000)
              /\ pipelines[i].sess.attempt = 1 => WaitWithin(i, 30000, 90000)
              /\ pipelines[i].sess.attempt <= 2

\* A second wait that is longer than any first wait.
C35_Witness ==
    \E i \in 1..Len(pipelines) :
        /\ Waiting(i)
        /\ pipelines[i].sess.attempt = 2
        /\ ~WaitWithin(i, 30000, 90000)
        /\ WaitWithin(i, 30000, 300000)

\* No stack of the listing passes the filter of the run: with a prefix,
\* none has a name that starts with it; without one (main.mts), the listing
\* is empty.
NoneMatches ==
    IF Truthy(args.prefix)
    THEN \A i \in 1..Len(remote.stacks) :
            ~(remote.stacks[i].named
              /\ StartsWith(remote.stacks[i].name, args.prefix.value))
    ELSE remote.stacks = <<>>

\* C36: when no listed stack matches the prefix, the run issues no delete
\* request and never shows the confirmation prompt, and once the listing
\* has been fetched it ends with exit code 1, before the 'Remove stacks'
\* summary is logged.
C36_NoMatchExitsWithOne ==
    NoneMatches =>
        /\ main.pc \in {"start", "listing", "listed", "exited"}
        /\ main.prompts = 0
        /\ answers = <<>>
        /\ pipelines = <<>>
        /\ DeleteRequests = {}
        /\ log["remove stacks"] = 0
        /\ log["done"] = 0
        /\ log["canceled"] = 0
        /\ (main.pc = "exited" /\ main.lists >= 1) => main.exit = "1"

\* A listing of two pages, none of whose stacks matches the prefix, has been
\* fetched whole and the run has ended with exit code 1.
C36_Witness ==
    /\ NoneMatches
    /\ Truthy(args.prefix)
    /\ NumPages(remote) = 2
    /\ main.summaries = remote.stacks
    /\ main.stacks = <<>>
    /\ main.pc = "exited"
    /\ main.exit = "1"
    /\ main.prompts = 0

(***************************************************************************)
(* Further properties of the backoff calculators, checked under            *)
(* BackoffSpec.                                                            *)
(***************************************************************************)
DecorrelatedAsked ==
    /\ Asked
    /\ calc.config.strategy = DECORRELATED_JITTER
    /\ calc.calls >= 1

\* The delay returned before the last one, in ms: baseDelay for the first
\* call and for the first call after a reset.
PreviousDelay ==
    IF calc.calls = 1 THEN calc.config.baseDelay
    ELSE calc.prev.delay \div DelayScale(calc.config)

\* min(maxDelay, jitterFactor * 3 * previous), in units of 1 / DelayScale ms.
TripleOfPrevious ==
    Min(calc.config.maxDelay * calc.config.jitterFactor.den,
        calc.config.jitterFactor.num * 3 * PreviousDelay) * RandDen

\* C33: the value a Decorrelated Jitter nextDelay call returns is the one it
\* stores as lastDelay, and it lies between baseDelay and
\* min(maxDelay, jitterFactor * 3 * previous), whichever of the two is the
\* smaller, whenever baseDelay <= maxDelay and jitterFactor > 0.
C33_DelayBetweenBaseAndTriple ==
    (DecorrelatedAsked /\ Ordered(calc.config)
        /\ calc.config.jitterFactor.num > 0)
    => LET base == calc.config.baseDelay * DelayScale(calc.config)
       IN  /\ calc.delay = calc.backoff.lastDelay * DelayScale(calc.config)
           /\ calc.delay >= Min(base, TripleOfPrevious)
           /\ calc.delay <= Max(base, TripleOfPrevious)

\* The call returns what it stores as lastDelay, and with the same draw of
\* Math.random() every attempt argument gives the same result.
C33_IgnoresAttemptAndStoresResult ==
    (calc.pc = "ready" /\ calc.config.strategy = DECORRELATED_JITTER)
    => /\ calc.calls >= 1 =>
             calc.delay = calc.backoff.lastDelay * DelayScale(calc.config)
       /\ \A attempt \in 1..MaxBackoffAttempt, k \in 0..(RandDen - 1) :
             nextDelay(calc.backoff, calc.config, attempt, k)
                = nextDelay(calc.backoff, calc.config, 1, k)

\* A second delay without reset that is below baseDelay and below
\* jitterFactor * 3 * previous as well.
C33_DelayBelowBothBounds ==
    /\ DecorrelatedAsked
    /\ Ordered(calc.config)
    /\ calc.config.jitterFactor.num > 0
    /\ calc.calls = 2
    /\ calc.config.baseDelay > 1
    /\ calc.delay < calc.config.baseDelay * DelayScale(calc.config)
    /\ calc.delay < TripleOfPrevious

PossibleDelays(backoff, config, attempt) ==
    {nextDelay(backoff, config, attempt, k).delay : k \in 0..(RandDen - 1)}

\* C37: after reset() a Decorrelated Jitter calculator is in the state of a
\* freshly constructed one, whatever nextDelay calls came before, and a
\* second reset() changes nothing; an Exponential or Full Jitter calculator
\* is not changed by reset() nor by nextDelay, so that the possible results
\* of nextDelay(attempt) are those of a fresh calculator.
C37_ResetRestoresFreshState ==
    calc.pc = "ready" =>
        LET fresh == createBackoffCalculator(calc.config)
            once == reset(calc.backoff, calc.config)
        IN  /\ calc.calls = 0 => calc.backoff = fresh
            /\ once = fresh
            /\ reset(once, calc.config) = once
            /\ calc.config.strategy # DECORRELATED_JITTER =>
                  /\ once = calc.backoff
                  /\ \A attempt \in 1..MaxBackoffAttempt :
                        PossibleDelays(calc.backoff, calc.config, attempt)
                           = PossibleDelays(fresh, calc.config, attempt)

\* A Decorrelated Jitter calculator that had moved away from baseDelay in
\* two calls has been reset.
C37_Witness ==
    /\ calc.pc = "ready"
    /\ calc.config.strategy = DECORRELATED_JITTER
    /\ calc.total = 2
    /\ calc.calls = 0
    /\ calc.delay # calc.config.baseDelay * DelayScale(calc.config)
    /\ calc.prev.delay # calc.config.baseDelay * DelayScale(calc.config)
    /\ calc.backoff.lastDelay = calc.config.baseDelay

(***************************************************************************)
(* The selection of the calculator, checked under RetrySpec.               *)
(***************************************************************************)
\* C38: the strategy alone selects the calculator of a session:
\* 'decorrelated-jitter' and 'full-jitter' select their own calculators;
\* 'exponential', an absent strategy and any other value select Exponential,
\* whose delays the session then sleeps.
C38_StrategySelectsCalculator ==
    rs.pc # "idle" =>
        /\ rs.backoff.class =
              IF "strategy" \in DOMAIN options
                    /\ options.strategy = "decorrelated-jitter"
              THEN "DecorrelatedJitterBackoff"
              ELSE IF "strategy" \in DOMAIN options
                         /\ options.strategy = "full-jitter"
              THEN "FullJitterBackoff"
              ELSE "ExponentialBackoff"
        /\ (/\ rs.pc = "sleeping"
            /\ rs.backoff.class = "ExponentialBackoff"
            /\ rs.config.jitterFactor.num = 0)
           => rs.delay = CappedExponential(rs.config, rs.attempt)
                            * DelayScale(rs.config)

\* A session with the unrecognized strategy 'linear' sleeps the exponential
\* delay of its second failure.
C38_Witness ==
    /\ "strategy" \in DOMAIN options
    /\ options.strategy = "linear"
    /\ "baseDelay" \in DOMAIN options
    /\ "maxDelay" \in DOMAIN options
    /\ rs.pc = "sleeping"
    /\ rs.attempt = 2
    /\ rs.backoff.class = "ExponentialBackoff"
    /\ rs.config.jitterFactor.num = 0
    /\ rs.delay = 2 * options.baseDelay * DelayScale(rs.config)

====
